---- MODULE Spec2Model ----
(***************************************************************************)
(* Background script of the Bing Results Scraper extension                 *)
(* (tools/Bing Results Scraper/background.js): the fetch wrapper           *)
(* fetchUrlContent, the chrome.runtime.onMessage relay, the per-hostname   *)
(* gate canFetchUrl and the periodic sweep of urlFetchHistory.             *)
(*                                                                         *)
(* JavaScript values are modelled as follows:                              *)
(*   string            a TLA+ string                                       *)
(*   string | null     <<>> for null/undefined, <<s>> for the string s     *)
(*   number|undefined  <<>> for undefined, <<n>> for the number n          *)
(*   Error             [name |-> ..., message |-> ...]                     *)
(*   Map               a function whose DOMAIN is the set of keys          *)
(***************************************************************************)
EXTENDS Integers, Sequences, FiniteSets, TLC

VARIABLES
  calls,            \* fetchUrlContent invocations with an await or a timer pending
  obs,              \* the last thing the relay did (handler run / call settled)
  clock,            \* what Date.now() returns
  ticks,            \* number of clock advances so far
  urlFetchHistory,  \* Map hostname -> timestamp of the last permitted call
  lastCallAt,       \* history: hostname -> time of the latest canFetchUrl call
  lastPassAt,       \* history: hostname -> time of its latest call that returned true
  unsweptHistory,   \* the map the same canFetchUrl calls build when no sweep runs
  gate              \* the last canFetchUrl call or sweep run

vars == <<calls, obs, clock, ticks, urlFetchHistory, lastCallAt, lastPassAt,
          unsweptHistory, gate>>
relayVars == <<calls, obs>>
gateVars == <<clock, ticks, urlFetchHistory, lastCallAt, lastPassAt, unsweptHistory, gate>>

----------------------------------------------------------------------------
(* Program constants *)

CONTENT_TIMEOUT == 15000
RATE_LIMIT_MS == 1000
RETENTION_MS == 60 * 60 * 1000

(* Bounds of the model *)

MaxInFlight == 2
MaxTicks == 3

----------------------------------------------------------------------------
(* JavaScript helpers *)

Null == <<>>
Some(v) == <<v>>
IsNull(o) == o = <<>>
Val(o) == o[1]

\* String.prototype.includes
includes(s, sub) ==
  \E i \in 1..(Len(s) - Len(sub) + 1) : SubSeq(s, i, i + Len(sub) - 1) = sub

\* index of the first occurrence of sub in s at or after from, 0 when none
IndexOf(s, sub, from) ==
  LET hits == {i \in from..(Len(s) - Len(sub) + 1) :
                 SubSeq(s, i, i + Len(sub) - 1) = sub}
  IN IF hits = {} THEN 0 ELSE CHOOSE i \in hits : \A j \in hits : i <= j

UpperChars == "ABCDEFGHIJKLMNOPQRSTUVWXYZ"
LowerChars == "abcdefghijklmnopqrstuvwxyz"

LowerChar(c) ==
  LET k == IndexOf(UpperChars, c, 1)
  IN IF k = 0 THEN c ELSE SubSeq(LowerChars, k, k)

RECURSIVE ToLower(_)
ToLower(s) ==
  IF Len(s) = 0 THEN ""
  ELSE LowerChar(SubSeq(s, 1, 1)) \o ToLower(SubSeq(s, 2, Len(s)))

----------------------------------------------------------------------------
(* new URL(url).hostname, for absolute URLs without credentials: Null when *)
(* the constructor throws (no scheme, or an http(s) URL with an empty or   *)
(* malformed host).                                                        *)

SchemeChars == "abcdefghijklmnopqrstuvwxyz0123456789+-."
SpecialSchemes == {"http", "https"}

AllCharsIn(s, alphabet) ==
  \A i \in 1..Len(s) : IndexOf(alphabet, SubSeq(s, i, i), 1) # 0

\* end of the authority: the first "/", "?" or "#" at or after from
AuthorityEnd(s, from) ==
  LET stops == {i \in from..Len(s) : SubSeq(s, i, i) \in {"/", "?", "#"}}
  IN IF stops = {} THEN Len(s) + 1 ELSE CHOOSE i \in stops : \A j \in stops : i <= j

\* number of leading "/" of s
RECURSIVE LeadingSlashes(_)
LeadingSlashes(s) ==
  IF Len(s) > 0 /\ SubSeq(s, 1, 1) = "/"
  THEN 1 + LeadingSlashes(SubSeq(s, 2, Len(s)))
  ELSE 0

StripPort(authority) ==
  LET k == IndexOf(authority, ":", 1)
  IN IF k = 0 THEN authority ELSE SubSeq(authority, 1, k - 1)

URLHostname(url) ==
  LET colon == IndexOf(url, ":", 1) IN
  IF colon <= 1 THEN Null
  ELSE
    LET scheme == ToLower(SubSeq(url, 1, colon - 1))
        rest == SubSeq(url, colon + 1, Len(url))
        slashes == LeadingSlashes(rest)
    IN
    IF ~AllCharsIn(scheme, SchemeChars)
       \/ IndexOf("0123456789+-.", SubSeq(scheme, 1, 1), 1) # 0
    THEN Null
    ELSE IF scheme \in SpecialSchemes THEN
      LET start == slashes + 1
          host == StripPort(SubSeq(rest, start, AuthorityEnd(rest, start) - 1))
      IN IF host = "" \/ includes(host, " ") THEN Null ELSE Some(ToLower(host))
    ELSE IF slashes >= 2 THEN
      Some(StripPort(SubSeq(rest, 3, AuthorityEnd(rest, 3) - 1)))
    ELSE Some("")

----------------------------------------------------------------------------
(* fetchUrlContent: the decisions it takes once its awaits settle *)

FetchResult(content, error) == [content |-> content, error |-> error]

\* Response.ok of the Fetch API
ResponseOk(response) == response.status \in 200..299

\* variant: a response without a content-type header is let through
AfterResponseMissingType(response) ==
  IF ~ResponseOk(response)
  THEN Some(FetchResult("",
         Some("HTTP " \o ToString(response.status) \o ": " \o response.statusText)))
  ELSE
    IF ~IsNull(response.contentType) /\ ~includes(Val(response.contentType), "text/html")
    THEN Some(FetchResult("", Some("Unsupported content type: " \o Val(response.contentType))))
    ELSE Null

\* variant: the content type is checked before the status
AfterResponseTypeFirst(response) ==
  LET contentType == IF IsNull(response.contentType) \/ response.contentType = Some("")
                     THEN "" ELSE Val(response.contentType)
  IN IF ~includes(contentType, "text/html")
     THEN Some(FetchResult("", Some("Unsupported content type: " \o contentType)))
     ELSE IF ~ResponseOk(response)
     THEN Some(FetchResult("",
            Some("HTTP " \o ToString(response.status) \o ": " \o response.statusText)))
     ELSE Null

\* variant: only the bare media type text/html is accepted
AfterResponseExactType(response) ==
  IF ~ResponseOk(response)
  THEN Some(FetchResult("",
         Some("HTTP " \o ToString(response.status) \o ": " \o response.statusText)))
  ELSE
    LET contentType == IF IsNull(response.contentType) \/ response.contentType = Some("")
                       THEN "" ELSE Val(response.contentType)
    IN IF contentType # "text/html"
       THEN Some(FetchResult("", Some("Unsupported content type: " \o contentType)))
       ELSE Null

\* lines 47-61: Null when the wrapper goes on to read the body
AfterResponse(response) ==
  IF ~ResponseOk(response)
  THEN Some(FetchResult("",
         Some("HTTP " \o ToString(response.status) \o ": " \o response.statusText)))
  ELSE
    LET contentType == IF IsNull(response.contentType) \/ response.contentType = Some("")
                       THEN "" ELSE Val(response.contentType)
    IN IF ~includes(contentType, "text/html")
       THEN Some(FetchResult("", Some("Unsupported content type: " \o contentType)))
       ELSE Null

\* lines 63-69
AfterBody(html) == FetchResult(html, Null)

\* variant: the failure's message is returned as content too
CatchBlockKeepsContent(error) ==
  LET errorMessage ==
        IF error.name = "AbortError" THEN "Request timeout"
        ELSE IF includes(error.message, "Failed to fetch") THEN "Network error or CORS blocked"
        ELSE IF includes(error.message, "TypeError") THEN "Invalid URL or network error"
        ELSE error.message
  IN FetchResult(error.message, Some(errorMessage))

\* variant: the message tests come before the test of the error's name
CatchBlockMessageFirst(error) ==
  LET errorMessage ==
        IF includes(error.message, "Failed to fetch") THEN "Network error or CORS blocked"
        ELSE IF includes(error.message, "TypeError") THEN "Invalid URL or network error"
        ELSE IF error.name = "AbortError" THEN "Request timeout"
        ELSE error.message
  IN FetchResult("", Some(errorMessage))

\* lines 71-89
CatchBlock(error) ==
  LET errorMessage ==
        IF error.name = "AbortError" THEN "Request timeout"
        ELSE IF includes(error.message, "Failed to fetch") THEN "Network error or CORS blocked"
        ELSE IF includes(error.message, "TypeError") THEN "Invalid URL or network error"
        ELSE error.message
  IN FetchResult("", Some(errorMessage))

----------------------------------------------------------------------------
(* The relay's promise callbacks (lines 100-111) *)

\* variant: the result is sent a second time
OnFulfilledTwice(result) == <<result, result>>

\* what .then passes to sendResponse
OnFulfilled(result) == <<result>>

\* what .catch passes to sendResponse
OnRejected(error) ==
  <<FetchResult("", Some(IF error.message # "" THEN error.message ELSE "Unknown error"))>>

----------------------------------------------------------------------------
(* Inputs of the relay: messages, senders and what the network answers *)

PassThroughActions == {"scrapingComplete", "scrapingError", "progressUpdate", "queryError"}
OtherActions == {Some("somethingElse"), Null}

FetchUrls == {"https://a.com/p", "https://b.org/q"}
MessageTimeouts == {Null, Some(0), Some(5000)}

FetchMessages ==
  [action : {Some("fetchContent")}, url : {Some(u) : u \in FetchUrls}, timeout : MessageTimeouts]
PlainMessages ==
  [action : {Some(a) : a \in PassThroughActions \cup {"backgroundPing"}} \cup OtherActions,
   url : {Null}, timeout : {Null}]
Messages == FetchMessages \cup PlainMessages
Senders == [tab : BOOLEAN]

Statuses ==
  { [status |-> 200, statusText |-> "OK"],
    [status |-> 404, statusText |-> "Not Found"],
    [status |-> 503, statusText |-> ""] }
ContentTypes ==
  { Null, Some("text/html"), Some("text/html; charset=utf-8"),
    Some("application/json"), Some("TEXT/HTML") }
Responses ==
  { [status |-> st.status, statusText |-> st.statusText, contentType |-> ct] :
      st \in Statuses, ct \in ContentTypes }
Bodies == {"", "<html>hi</html>"}

\* what fetch() and response.text() reject with when the transport fails
NetworkErrors ==
  { [name |-> "TypeError", message |-> "Failed to fetch"],
    [name |-> "TypeError", message |-> "network error"],
    [name |-> "TypeError", message |-> "TypeError: Load failed"],
    [name |-> "TypeError", message |-> "Failed to parse URL from https://a.com/p"] }

\* what fetch() rejects with after controller.abort()
AbortErrors ==
  { [name |-> "AbortError", message |-> "signal is aborted without reason"],
    [name |-> "AbortError", message |-> "The user aborted a request."],
    [name |-> "AbortError", message |-> "Failed to fetch: TypeError" ] }

----------------------------------------------------------------------------
(* chrome.runtime.onMessage listener (lines 93-140) *)

\* message.timeout || CONTENT_TIMEOUT
TimeoutArg(message) ==
  IF IsNull(message.timeout) \/ Val(message.timeout) = 0
  THEN CONTENT_TIMEOUT
  ELSE Val(message.timeout)

\* variant: every message of a tab that is not a fetch request is left to
\* the other listeners
OnMessageTabFirst(message, sender) ==
  IF message.action = Some("fetchContent")
  THEN [ret |-> TRUE, responses |-> <<>>,
        fetches |-> <<[url |-> message.url, timeout |-> TimeoutArg(message)]>>]
  ELSE IF sender.tab
  THEN [ret |-> FALSE, responses |-> <<>>, fetches |-> <<>>]
  ELSE IF message.action = Some("backgroundPing")
  THEN [ret |-> TRUE, responses |-> <<[status |-> "background active"]>>, fetches |-> <<>>]
  ELSE [ret |-> FALSE, responses |-> <<>>, fetches |-> <<>>]

\* variant: the pass-through branch keeps the channel open, and it applies
\* to every sender
OnMessageRelayTrue(message, sender) ==
  IF message.action = Some("fetchContent")
  THEN [ret |-> TRUE, responses |-> <<>>,
        fetches |-> <<[url |-> message.url, timeout |-> TimeoutArg(message)]>>]
  ELSE IF message.action \in {Some(a) : a \in PassThroughActions}
  THEN [ret |-> TRUE, responses |-> <<>>, fetches |-> <<>>]
  ELSE IF message.action = Some("backgroundPing")
  THEN [ret |-> TRUE, responses |-> <<[status |-> "background active"]>>, fetches |-> <<>>]
  ELSE [ret |-> FALSE, responses |-> <<>>, fetches |-> <<>>]

\* variant: a fetch request is refused while the rate limiter has a record
\* of its hostname that is less than RATE_LIMIT_MS old
OnMessageGated(message, sender) ==
  IF message.action = Some("fetchContent")
  THEN LET domain == URLHostname(Val(message.url))
           refused == /\ ~IsNull(domain)
                      /\ Val(domain) \in DOMAIN urlFetchHistory
                      /\ clock - urlFetchHistory[Val(domain)] < RATE_LIMIT_MS
       IN IF refused
          THEN [ret |-> TRUE, responses |-> <<FetchResult("", Some("Rate limited"))>>,
                fetches |-> <<>>]
          ELSE [ret |-> TRUE, responses |-> <<>>,
                fetches |-> <<[url |-> message.url, timeout |-> TimeoutArg(message)]>>]
  ELSE IF sender.tab /\ message.action \in {Some(a) : a \in PassThroughActions}
  THEN [ret |-> FALSE, responses |-> <<>>, fetches |-> <<>>]
  ELSE IF message.action = Some("backgroundPing")
  THEN [ret |-> TRUE, responses |-> <<[status |-> "background active"]>>, fetches |-> <<>>]
  ELSE [ret |-> FALSE, responses |-> <<>>, fetches |-> <<>>]

\* ret: the listener's return value; responses: the payloads it hands to
\* sendResponse before returning; fetches: its calls of fetchUrlContent
OnMessage(message, sender) ==
  IF message.action = Some("fetchContent")
  THEN [ret |-> TRUE, responses |-> <<>>,
        fetches |-> <<[url |-> message.url, timeout |-> TimeoutArg(message)]>>]
  ELSE IF sender.tab /\ message.action \in {Some(a) : a \in PassThroughActions}
  THEN [ret |-> FALSE, responses |-> <<>>, fetches |-> <<>>]
  ELSE IF message.action = Some("backgroundPing")
  THEN [ret |-> TRUE, responses |-> <<[status |-> "background active"]>>, fetches |-> <<>>]
  ELSE [ret |-> FALSE, responses |-> <<>>, fetches |-> <<>>]

\* variant: one AbortController shared by every call
SharedController(pending) == 1

\* line 26: new AbortController() is an object of its own; it is named by
\* the least number that no call with an await or a timer pending holds
NewController(pending) ==
  LET used == {pending[k].controller : k \in 1..Len(pending)}
  IN CHOOSE c \in 1..(Len(pending) + 1) :
       c \notin used /\ \A d \in 1..(c - 1) : d \in used

\* lines 22-29: a call of fetchUrlContent creates its own AbortController,
\* arms its timer, issues the GET and suspends at await fetch(...)
\* timer: the timeout of line 27 is armed (when it fires is left open, so
\* args.timeout is not kept); gets: GET requests issued
StartCall(args) ==
  [url |-> args.url, pc |-> "fetch", response |-> Null,
   controller |-> NewController(calls), timer |-> TRUE, gets |-> 1]

\* pending with the call started added; the pending calls are kept in the
\* order of their controllers, nothing depends on the order of arrival
AddCall(pending, started) ==
  LET before == SelectSeq(pending, LAMBDA c : c.controller < started.controller)
      after == SelectSeq(pending, LAMBDA c : c.controller >= started.controller)
  IN before \o <<started>> \o after

Receive(message, sender) ==
  LET r == OnMessage(message, sender) IN
  /\ Len(calls) + Len(r.fetches) <= MaxInFlight
  /\ calls' = IF r.fetches = <<>> THEN calls ELSE AddCall(calls, StartCall(r.fetches[1]))
  /\ obs' = [kind |-> "handled", message |-> message, sender |-> sender,
             ret |-> r.ret, responses |-> r.responses, fetches |-> r.fetches]
  /\ UNCHANGED gateVars

RemoveAt(seq, i) == SubSeq(seq, 1, i - 1) \o SubSeq(seq, i + 1, Len(seq))

\* the promise of call i fulfils with result: the relay's .then runs
Settled(i, response, failure, body, bodyRead, result) ==
  [kind |-> "settled", url |-> calls[i].url,
   response |-> response, failure |-> failure, body |-> body,
   bodyRead |-> bodyRead, result |-> result, responses |-> OnFulfilled(result),
   gets |-> calls[i].gets]

\* await fetch(...) resolves with the response headers (lines 29-61);
\* clearTimeout (line 45) disarms the timer before anything else is done
ResponseArrives(i, response) ==
  /\ calls[i].pc = "fetch"
  /\ LET r == AfterResponse(response) IN
     IF IsNull(r)
     THEN /\ calls' = [calls EXCEPT ![i].pc = "text", ![i].response = Some(response),
                                   ![i].timer = FALSE]
          /\ UNCHANGED obs
     ELSE /\ calls' = RemoveAt(calls, i)
          /\ obs' = Settled(i, Some(response), Null, Null, FALSE, Val(r))
  /\ UNCHANGED gateVars

\* variant: a failed fetch is issued again
FetchRejectsRetries(i, error) ==
  /\ calls[i].pc = "fetch"
  /\ calls' = [calls EXCEPT ![i].gets = @ + 1]
  /\ UNCHANGED obs
  /\ UNCHANGED gateVars

\* await fetch(...) rejects on its own: clearTimeout (line 45) is skipped,
\* so the call's timer stays armed after the call has returned
FetchRejects(i, error) ==
  /\ calls[i].pc = "fetch"
  /\ calls' = [calls EXCEPT ![i].pc = "failed"]
  /\ obs' = Settled(i, Null, Some(error), Null, FALSE, CatchBlock(error))
  /\ UNCHANGED gateVars

\* the calls whose pending await listens to the signal of controller c
AbortedBy(c) ==
  {k \in 1..Len(calls) : calls[k].controller = c /\ calls[k].pc \in {"fetch", "text"}}

\* seq without the elements at the indices in gone
RECURSIVE Without(_, _)
Without(seq, gone) ==
  IF Len(seq) = 0 THEN <<>>
  ELSE Without(SubSeq(seq, 1, Len(seq) - 1), gone)
         \o (IF Len(seq) \in gone THEN <<>> ELSE <<seq[Len(seq)]>>)

\* the timer of call i fires while its fetch is pending (line 27):
\* controller.abort() rejects with an AbortError what listens to the
\* signal of that controller
TimerFires(i, error) ==
  /\ calls[i].timer
  /\ calls[i].pc = "fetch"
  /\ calls' = Without(calls, AbortedBy(calls[i].controller))
  /\ obs' = Settled(i, Null, Some(error), Null, FALSE, CatchBlock(error))
  /\ UNCHANGED gateVars

\* the timer of a call that has already returned fires: nothing to abort
StaleTimerFires(i) ==
  /\ calls[i].timer
  /\ calls[i].pc = "failed"
  /\ calls' = RemoveAt(calls, i)
  /\ UNCHANGED obs
  /\ UNCHANGED gateVars

\* await response.text() resolves (lines 63-69)
BodyArrives(i, html) ==
  /\ calls[i].pc = "text"
  /\ calls' = RemoveAt(calls, i)
  /\ obs' = Settled(i, calls[i].response, Null, Some(html), TRUE, AfterBody(html))
  /\ UNCHANGED gateVars

\* await response.text() rejects (lines 63, 71-89)
BodyRejects(i, error) ==
  /\ calls[i].pc = "text"
  /\ calls' = RemoveAt(calls, i)
  /\ obs' = Settled(i, calls[i].response, Some(error), Null, TRUE, CatchBlock(error))
  /\ UNCHANGED gateVars

----------------------------------------------------------------------------
(* The rate limiter (lines 180-210) *)

UrlInputs ==
  { "http://a.com/x", "https://A.com:8443/y", "http://b.org/",
    "not a url", "//a.com/x" }

StartClocks == {0, 5000}
Deltas == {1, 999, 1000, 3600000}

\* new URL(url).hostname of every input, parsed once
HostnameOf == [url \in UrlInputs |-> URLHostname(url)]

EmptyMap == [k \in {} |-> 0]
MapSet(map, key, value) ==
  [k \in DOMAIN map \cup {key} |-> IF k = key THEN value ELSE map[k]]
MapHas(map, key) == key \in DOMAIN map

\* variant: an unparseable URL is recorded under the empty hostname
CanFetchUrlRecordsUnparsed(map, url, now) ==
  LET domain == IF IsNull(HostnameOf[url]) THEN Some("") ELSE HostnameOf[url]
      lastFetchFalsy == ~MapHas(map, Val(domain)) \/ map[Val(domain)] = 0
  IN
  IF lastFetchFalsy \/ (now - map[Val(domain)]) >= RATE_LIMIT_MS
  THEN [ret |-> TRUE, map |-> MapSet(map, Val(domain), now)]
  ELSE [ret |-> FALSE, map |-> map]

\* variant: the time of every call is recorded, refused calls included
CanFetchUrlAlwaysRecords(map, url, now) ==
  LET domain == HostnameOf[url] IN
  IF IsNull(domain)
  THEN [ret |-> TRUE, map |-> map]
  ELSE
    LET lastFetchFalsy == ~MapHas(map, Val(domain)) \/ map[Val(domain)] = 0 IN
    IF lastFetchFalsy \/ (now - map[Val(domain)]) >= RATE_LIMIT_MS
    THEN [ret |-> TRUE, map |-> MapSet(map, Val(domain), now)]
    ELSE [ret |-> FALSE, map |-> MapSet(map, Val(domain), now)]

\* lines 183-198: the value returned and the map left behind
CanFetchUrl(map, url, now) ==
  LET domain == HostnameOf[url] IN
  IF IsNull(domain)
  THEN [ret |-> TRUE, map |-> map]
  ELSE
    LET lastFetchFalsy == ~MapHas(map, Val(domain)) \/ map[Val(domain)] = 0 IN
    IF lastFetchFalsy \/ (now - map[Val(domain)]) >= RATE_LIMIT_MS
    THEN [ret |-> TRUE, map |-> MapSet(map, Val(domain), now)]
    ELSE [ret |-> FALSE, map |-> map]

\* variant: an entry exactly as old as the retention window is deleted too
SweepMapInclusive(map, now) ==
  LET cutoff == now - RETENTION_MS
      kept == {k \in DOMAIN map : ~(map[k] <= cutoff)}
  IN [k \in kept |-> map[k]]

\* variant: the retention window is shorter than the rate-limit interval
SweepMapShortRetention(map, now) ==
  LET cutoff == now - 500
      kept == {k \in DOMAIN map : ~(map[k] < cutoff)}
  IN [k \in kept |-> map[k]]

\* lines 201-210: the map after one run of the sweep
SweepMap(map, now) ==
  LET cutoff == now - RETENTION_MS
      kept == {k \in DOMAIN map : ~(map[k] < cutoff)}
  IN [k \in kept |-> map[k]]

\* the value of map at the hostname domain, Null when there is none
Lookup(map, domain) ==
  IF ~IsNull(domain) /\ MapHas(map, Val(domain)) THEN Some(map[Val(domain)]) ELSE Null

\* one call of canFetchUrl at the current time; the same call is applied
\* to unsweptHistory, and gate keeps what the call saw and returned
CallCanFetchUrl(url) ==
  LET r == CanFetchUrl(urlFetchHistory, url, clock)
      unswept == CanFetchUrl(unsweptHistory, url, clock)
      domain == HostnameOf[url]
  IN
  /\ urlFetchHistory' = r.map
  /\ unsweptHistory' = unswept.map
  /\ gate' = [kind |-> "call", url |-> url, domain |-> domain, now |-> clock,
              ret |-> r.ret, before |-> urlFetchHistory,
              prev |-> Lookup(lastCallAt, domain),
              prevPass |-> Lookup(lastPassAt, domain),
              unsweptRet |-> unswept.ret,
              unsweptPrev |-> Lookup(unsweptHistory, domain)]
  /\ lastCallAt' = IF IsNull(domain) THEN lastCallAt
                   ELSE MapSet(lastCallAt, Val(domain), clock)
  /\ lastPassAt' = IF IsNull(domain) \/ ~r.ret THEN lastPassAt
                   ELSE MapSet(lastPassAt, Val(domain), clock)
  /\ UNCHANGED <<clock, ticks>>
  /\ UNCHANGED relayVars

Sweep ==
  /\ urlFetchHistory' = SweepMap(urlFetchHistory, clock)
  /\ gate' = [kind |-> "sweep", now |-> clock, before |-> urlFetchHistory]
  /\ UNCHANGED <<clock, ticks, lastCallAt, lastPassAt, unsweptHistory>>
  /\ UNCHANGED relayVars

\* Date.now() moves on
Tick(d) ==
  /\ ticks < MaxTicks
  /\ clock' = clock + d
  /\ ticks' = ticks + 1
  /\ UNCHANGED <<urlFetchHistory, lastCallAt, lastPassAt, unsweptHistory, gate>>
  /\ UNCHANGED relayVars

----------------------------------------------------------------------------
(* Specifications *)

Init ==
  /\ calls = <<>>
  /\ obs = [kind |-> "none"]
  /\ clock \in StartClocks
  /\ ticks = 0
  /\ urlFetchHistory = EmptyMap
  /\ lastCallAt = EmptyMap
  /\ lastPassAt = EmptyMap
  /\ unsweptHistory = EmptyMap
  /\ gate = [kind |-> "none"]

NextRelay ==
  \/ \E message \in Messages, sender \in Senders : Receive(message, sender)
  \/ \E i \in 1..Len(calls), response \in Responses : ResponseArrives(i, response)
  \/ \E i \in 1..Len(calls), error \in NetworkErrors : FetchRejects(i, error)
  \/ \E i \in 1..Len(calls), error \in AbortErrors : TimerFires(i, error)
  \/ \E i \in 1..Len(calls) : StaleTimerFires(i)
  \/ \E i \in 1..Len(calls), html \in Bodies : BodyArrives(i, html)
  \/ \E i \in 1..Len(calls), error \in NetworkErrors : BodyRejects(i, error)

NextGate ==
  \/ \E url \in UrlInputs : CallCanFetchUrl(url)
  \/ Sweep
  \/ \E d \in Deltas : Tick(d)

Next == NextRelay \/ NextGate

\* Inputs of the specification that runs the relay and the rate limiter
\* side by side: the fetch requests, one answer of each kind, and calls of
\* canFetchUrl for a hostname the requests go to
WiredMessages == {m \in FetchMessages : IsNull(m.timeout)}
WiredSenders == {[tab |-> TRUE]}
WiredResponses ==
  { [status |-> 200, statusText |-> "OK", contentType |-> Some("text/html")],
    [status |-> 404, statusText |-> "Not Found", contentType |-> Null] }
WiredBodies == {"<html>hi</html>"}
WiredErrors == {[name |-> "TypeError", message |-> "Failed to fetch"]}
WiredAborts == {[name |-> "AbortError", message |-> "signal is aborted without reason"]}
WiredUrls == {"http://a.com/x"}
WiredDeltas == {999}

NextWired ==
  \/ \E message \in WiredMessages, sender \in WiredSenders : Receive(message, sender)
  \/ \E i \in 1..Len(calls), response \in WiredResponses : ResponseArrives(i, response)
  \/ \E i \in 1..Len(calls), error \in WiredErrors : FetchRejects(i, error)
  \/ \E i \in 1..Len(calls), error \in WiredAborts : TimerFires(i, error)
  \/ \E i \in 1..Len(calls) : StaleTimerFires(i)
  \/ \E i \in 1..Len(calls), html \in WiredBodies : BodyArrives(i, html)
  \/ \E i \in 1..Len(calls), error \in WiredErrors : BodyRejects(i, error)
  \/ \E url \in WiredUrls : CallCanFetchUrl(url)
  \/ \E d \in WiredDeltas : Tick(d)

\* the relay and the fetch wrapper, as the extension runs them
SpecRelay == Init /\ [][NextRelay]_vars
\* canFetchUrl and the sweep, driven by arbitrary callers
SpecGate == Init /\ [][NextGate]_vars
Spec == Init /\ [][Next]_vars
\* the relay and canFetchUrl side by side, on the small inputs
SpecWired == Init /\ [][NextWired]_vars

----------------------------------------------------------------------------
(* Properties *)

ErrorImpliesNoContent(payload) == payload.error # Null => payload.content = ""

\* a declared content type that names the HTML media type, in any case
IndicatesHTML(contentType) ==
  ~IsNull(contentType) /\ includes(ToLower(Val(contentType)), "text/html")
TypeText(contentType) == IF IsNull(contentType) THEN "" ELSE Val(contentType)

TimedOut == obs.kind = "settled" /\ ~IsNull(obs.failure)
              /\ Val(obs.failure).name = "AbortError"
GotResponse == obs.kind = "settled" /\ ~IsNull(obs.response)
Handled(actions) == obs.kind = "handled" /\ obs.message.action \in actions

\* C1: every FetchResult the wrapper returns and every payload the relay
\* sends for a fetchContent message, the fallback of the relay's .catch
\* included, has empty content whenever its error is not null.
C1_ErrorImpliesEmptyContent ==
  /\ obs.kind = "settled" =>
       /\ ErrorImpliesNoContent(obs.result)
       /\ \A k \in 1..Len(obs.responses) : ErrorImpliesNoContent(obs.responses[k])
  /\ \A error \in NetworkErrors \cup AbortErrors :
       \A k \in 1..Len(OnRejected(error)) : ErrorImpliesNoContent(OnRejected(error)[k])

C1_Witness ==
  /\ obs.kind = "settled"
  /\ obs.result.error = Some("Network error or CORS blocked")
  /\ obs.responses = <<obs.result>>

\* C2: when the timer of a call fires before the server has responded, the
\* call returns {content: "", error: "Request timeout"} whatever the text
\* of the abort error, and no response was received or body read.
C2_TimeoutResult ==
  TimedOut =>
    /\ obs.result = [content |-> "", error |-> Some("Request timeout")]
    /\ IsNull(obs.response)
    /\ ~obs.bodyRead

C2_Witness ==
  /\ TimedOut
  /\ Val(obs.failure).message = "Failed to fetch: TypeError"
  /\ obs.result.error = Some("Request timeout")

\* C3 as stated: every response that arrives in time with a content type
\* that does not indicate HTML gives "Unsupported content type: <type>",
\* empty content, and the body is not read.
C3_Original ==
  GotResponse /\ ~IndicatesHTML(Val(obs.response).contentType) =>
    /\ obs.result = [content |-> "",
                     error |-> Some("Unsupported content type: "
                                      \o TypeText(Val(obs.response).contentType))]
    /\ ~obs.bodyRead

\* C3 amended: every response that arrives in time with OK status and a
\* content type that does not indicate HTML (or none) gives
\* "Unsupported content type: <type>", empty content, and the body is not
\* read.
C3_UnsupportedType ==
  GotResponse /\ ResponseOk(Val(obs.response))
              /\ ~IndicatesHTML(Val(obs.response).contentType) =>
    /\ obs.result = [content |-> "",
                     error |-> Some("Unsupported content type: "
                                      \o TypeText(Val(obs.response).contentType))]
    /\ ~obs.bodyRead

C3_Witness ==
  /\ GotResponse
  /\ Val(obs.response).status = 200
  /\ IsNull(Val(obs.response).contentType)
  /\ obs.result.error = Some("Unsupported content type: ")
  /\ ~obs.bodyRead

\* C4: every response that arrives in time with a status that is not OK
\* gives {content: "", error: "HTTP <status>: <statusText>"} whatever its
\* content type, the body is not read, and the relay answers with that
\* result; a 404 Not Found is answered with "HTTP 404: Not Found".
C4_HttpError ==
  GotResponse /\ Val(obs.response).status \notin 200..299 =>
    /\ obs.result = [content |-> "",
                     error |-> Some("HTTP " \o ToString(Val(obs.response).status)
                                      \o ": " \o Val(obs.response).statusText)]
    /\ ~obs.bodyRead
    /\ obs.responses = <<obs.result>>
    /\ (Val(obs.response).status = 404 /\ Val(obs.response).statusText = "Not Found"
          => obs.responses = <<[content |-> "", error |-> Some("HTTP 404: Not Found")]>>)

C4_Witness ==
  /\ GotResponse
  /\ Val(obs.response).status = 404
  /\ Val(obs.response).contentType = Some("application/json")
  /\ obs.responses = <<[content |-> "", error |-> Some("HTTP 404: Not Found")]>>

\* C5: an OK response whose content type contains text/html and whose
\* body arrives without failure gives error null and the whole body as
\* content, an empty body included.
C5_Success ==
  GotResponse /\ Val(obs.response).status \in 200..299
              /\ ~IsNull(Val(obs.response).contentType)
              /\ includes(Val(Val(obs.response).contentType), "text/html")
              /\ IsNull(obs.failure) =>
    /\ obs.bodyRead
    /\ ~IsNull(obs.body)
    /\ obs.result = [content |-> Val(obs.body), error |-> Null]

C5_Witness ==
  /\ GotResponse
  /\ Val(obs.response).contentType = Some("text/html; charset=utf-8")
  /\ obs.body = Some("")
  /\ obs.result = [content |-> "", error |-> Null]

\* C6 as stated: of two successive canFetchUrl calls for one hostname, the
\* second returns false when it is less than 1000 ms after the first and
\* true when it is 1000 ms or more after it.
C6_SuccessiveCalls ==
  gate.kind = "call" /\ ~IsNull(gate.domain) /\ ~IsNull(gate.prev) =>
    LET elapsed == gate.now - Val(gate.prev) IN
    /\ elapsed < 1000 => gate.ret = FALSE
    /\ elapsed >= 1000 => gate.ret = TRUE

\* C7: for a fetchContent message of any sender the listener returns true,
\* calls the wrapper once with message.url and answers nothing itself; when
\* the call settles, the response callback is invoked once, with the
\* result the wrapper returned.
C7_FetchContentRelay ==
  /\ Handled({Some("fetchContent")}) =>
       /\ obs.ret = TRUE
       /\ obs.responses = <<>>
       /\ Len(obs.fetches) = 1
       /\ obs.fetches[1].url = obs.message.url
  /\ obs.kind = "settled" => obs.responses = <<obs.result>>

C7_Witness ==
  /\ obs.kind = "settled"
  /\ obs.result = [content |-> "<html>hi</html>", error |-> Null]
  /\ obs.responses = <<obs.result>>
  /\ Len(calls) > 0

\* C8: a backgroundPing message of any sender is answered inside the
\* listener, exactly once, with {status: "background active"}, whatever
\* fetches are in flight.
C8_PingAnswered ==
  Handled({Some("backgroundPing")}) =>
    /\ obs.responses = <<[status |-> "background active"]>>
    /\ obs.fetches = <<>>

C8_Witness ==
  /\ Handled({Some("backgroundPing")})
  /\ obs.sender.tab
  /\ obs.responses = <<[status |-> "background active"]>>
  /\ Len(calls) > 0

\* C9: for a message whose action is neither fetchContent nor
\* backgroundPing (or that has none) the listener never calls the response
\* callback, issues no fetch and returns false.
C9_NoResponse ==
  obs.kind = "handled"
    /\ obs.message.action \notin {Some("fetchContent"), Some("backgroundPing")} =>
    /\ obs.responses = <<>>
    /\ obs.fetches = <<>>
    /\ obs.ret = FALSE

C9_Witness ==
  /\ Handled({Some("progressUpdate")})
  /\ ~obs.sender.tab
  /\ obs.ret = FALSE
  /\ obs.responses = <<>>

\* C10: for a string that does not parse as a URL canFetchUrl returns true
\* and leaves urlFetchHistory as it was.
C10_FailOpen ==
  gate.kind = "call" /\ gate.url \in {"not a url", "//a.com/x"} =>
    /\ gate.ret = TRUE
    /\ urlFetchHistory = gate.before

C10_Witness ==
  /\ gate.kind = "call"
  /\ gate.url = "not a url"
  /\ gate.ret = TRUE
  /\ DOMAIN gate.before = {"a.com", "b.org"}
  /\ urlFetchHistory = gate.before

\* C12 as stated: the deadline covers the whole request, the reading of
\* the body included: as long as a call has not returned, its timer is
\* armed, so a request that does not complete is cancelled.
C12_DeadlineCoversBody ==
  \A i \in 1..Len(calls) : calls[i].pc \in {"fetch", "text"} => calls[i].timer

\* C13: the expiry of one call's timer aborts that call's request only:
\* every other call with an await or a timer pending is left exactly as it
\* was, and a timer that fires after its call has returned changes no call
\* and sends nothing.
C13_ScopedCancellation ==
  [][ /\ \A i \in 1..Len(calls), error \in AbortErrors :
           TimerFires(i, error) => calls' = RemoveAt(calls, i)
      /\ \A i \in 1..Len(calls) :
           StaleTimerFires(i) => calls' = RemoveAt(calls, i) /\ obs' = obs ]_vars

C13_Witness ==
  /\ TimedOut
  /\ \E k \in 1..Len(calls) : calls[k].pc = "fetch" /\ calls[k].timer

\* C15 as stated: a failed fetch gives "Request timeout" for a
\* cancellation, "Network error or CORS blocked" for a generic network or
\* CORS failure, "Invalid URL or network error" for any other error of
\* type TypeError, and the failure's own message otherwise.
C15_ErrorMapping ==
  obs.kind = "settled" /\ ~IsNull(obs.failure) =>
    LET error == Val(obs.failure) IN
    obs.result.error =
      Some(IF error.name = "AbortError" THEN "Request timeout"
           ELSE IF includes(error.message, "Failed to fetch")
                THEN "Network error or CORS blocked"
           ELSE IF error.name = "TypeError" THEN "Invalid URL or network error"
           ELSE error.message)

\* C19: there are no retries: every call of fetchUrlContent has issued
\* exactly one GET, while it is pending and when it returns, on every
\* outcome, and a fetchContent message makes exactly one call.
C19_NoRetries ==
  /\ \A i \in 1..Len(calls) : calls[i].gets = 1
  /\ obs.kind = "settled" => obs.gets = 1
  /\ Handled({Some("fetchContent")}) => Len(obs.fetches) = 1

C19_Witness ==
  /\ obs.kind = "settled"
  /\ obs.failure = Some([name |-> "TypeError", message |-> "network error"])
  /\ obs.gets = 1
  /\ \E k \in 1..Len(calls) : calls[k].pc = "failed" /\ calls[k].gets = 1

\* C20 as stated: the timeout handed to the wrapper is message.timeout
\* whenever the message carries one, whatever its value, and 15000 only
\* when it carries none.
C20_TimeoutPassed ==
  Handled({Some("fetchContent")}) =>
    /\ Len(obs.fetches) = 1
    /\ obs.fetches[1].timeout =
         IF IsNull(obs.message.timeout) THEN 15000 ELSE Val(obs.message.timeout)

\* the hostname each parseable input names
ExpectedHost ==
  [url \in {"http://a.com/x", "https://A.com:8443/y", "http://b.org/"} |->
     IF url = "http://b.org/" THEN "b.org" ELSE "a.com"]

\* C11: after one run of the sweep at time now, every hostname recorded
\* more than one hour before now is gone, every other one (one recorded
\* exactly one hour before now included) is still there with its
\* timestamp, and nothing else is in the map.
C11_SweepRetention ==
  gate.kind = "sweep" =>
    /\ DOMAIN urlFetchHistory \subseteq DOMAIN gate.before
    /\ \A h \in DOMAIN gate.before :
         IF gate.before[h] < gate.now - 3600000
         THEN h \notin DOMAIN urlFetchHistory
         ELSE h \in DOMAIN urlFetchHistory /\ urlFetchHistory[h] = gate.before[h]

C11_Witness ==
  /\ gate.kind = "sweep"
  /\ \E h \in DOMAIN gate.before :
       gate.before[h] = gate.now - 3600001 /\ h \notin DOMAIN urlFetchHistory
  /\ \E h \in DOMAIN gate.before :
       gate.before[h] = gate.now - 3600000 /\ h \in DOMAIN urlFetchHistory

\* C14: sweeps never change what the gate answers: every canFetchUrl call
\* returns what the same call returns on the map that the same sequence of
\* calls builds when no sweep ever runs.
C14_SweepsInvisible ==
  gate.kind = "call" => gate.ret = gate.unsweptRet

C14_Witness ==
  /\ gate.kind = "call"
  /\ ~IsNull(gate.domain)
  /\ ~MapHas(gate.before, Val(gate.domain))
  /\ ~IsNull(gate.unsweptPrev)
  /\ gate.ret = TRUE
  /\ gate.unsweptRet = TRUE

\* C16: a canFetchUrl call that returns false leaves urlFetchHistory as it
\* was; one that returns true for a parseable URL sets the entry of the
\* URL's hostname to the current time and leaves every other entry as it
\* was.
C16_GateFrame ==
  gate.kind = "call" =>
    /\ gate.ret = FALSE => urlFetchHistory = gate.before
    /\ gate.ret = TRUE /\ gate.url \in DOMAIN ExpectedHost =>
         /\ DOMAIN urlFetchHistory = DOMAIN gate.before \cup {ExpectedHost[gate.url]}
         /\ urlFetchHistory[ExpectedHost[gate.url]] = gate.now
         /\ \A h \in DOMAIN gate.before \ {ExpectedHost[gate.url]} :
              urlFetchHistory[h] = gate.before[h]

C16_Witness ==
  /\ gate.kind = "call"
  /\ gate.url = "https://A.com:8443/y"
  /\ gate.ret = TRUE
  /\ DOMAIN gate.before = {"a.com", "b.org"}
  /\ gate.before["a.com"] < gate.now
  /\ urlFetchHistory["a.com"] = gate.now
  /\ urlFetchHistory["b.org"] = gate.before["b.org"]

\* C17 as stated: two calls for one hostname that both return true are at
\* least 1000 ms apart, and the entry stored for a hostname is the time of
\* the latest call for it that returned true, from any clock value on.
C17_OnePassPerInterval ==
  /\ gate.kind = "call" /\ gate.url \in DOMAIN ExpectedHost
       /\ gate.ret = TRUE /\ ~IsNull(gate.prevPass) =>
       gate.now - Val(gate.prevPass) >= 1000
  /\ \A h \in DOMAIN urlFetchHistory :
       MapHas(lastPassAt, h) /\ urlFetchHistory[h] = lastPassAt[h]

====
